---- MODULE Spec2Model ----
(***************************************************************************)
(* larvitdbmigration-pg: DbMigration.run() / runScripts() / getLock().     *)
(*                                                                         *)
(* Spec      models the advisory-lock implementation, src/src/index.ts     *)
(*           lines 1-177 (pg_try_advisory_lock on a dedicated session).    *)
(* FairSpec  is the same with the runs already started and the weak        *)
(*           fairness the event loop gives every pending continuation.     *)
(* SpecFault is Spec with failing infrastructure: getConnection(), the     *)
(*           queries of run() and fs.readdir may reject.                   *)
(* SpecGap   is Spec on directories that lack an ordinal below a present   *)
(*           higher one.                                                   *)
(* SpecFlag  models the table-lock-and-flag implementation, run(),         *)
(*           runScripts() and getLock() of src/unnamed/part_002.           *)
(* SpecOld   models the older table-lock-and-flag implementation,         *)
(*           src/src/index.ts lines 179-349; FairSpecOld adds the weak     *)
(*           fairness of the event loop.                                   *)
(*                                                                         *)
(* One action per awaited operation of the code.  The synchronous code     *)
(* between two awaits belongs to the action of the await that precedes it. *)
(***************************************************************************)
EXTENDS Integers, Sequences, FiniteSets, TLC

\* Number of run() invocations (DbMigration instances sharing one database).
NumRuns == 3
\* Largest ordinal a file of the migration script directory may carry.
MaxOrd == 2

Runs == 1..NumRuns
Kinds == {"js", "sql"}
\* A directory item "<n>.js" / "<n>.sql" is the pair <<n, kind>>.
\* The highest ordinal a directory can hold: one above MaxOrd, for the
\* listings in which an ordinal is missing below a higher one.
TopOrd == MaxOrd + 1

Entries == (1..TopOrd) \X Kinds

\* The tracking table names in use: the default of the constructor and one
\* given as options.tableName.
Default == "db_version"
Tables == {Default, "db_version_b"}

VARIABLES
    dir,          \* what fs.readdir(migrationScriptPath) resolves to
    tableOf,      \* per run(): options.tableName of its DbMigration instance
    otherTable,   \* the tracking table of the other name: its existence,
                  \* its row, and the row's version and running
    failing,      \* the entries whose script throws / whose SQL errors
    advLock,      \* session holding advisory lock 1 (0: nobody)
    tableLock,    \* run() whose transaction holds LOCK TABLE (0: nobody)
    tableExists,  \* the tracking table "db_version" exists
    hasRow,       \* the tracking table holds the row with id 1
    version,      \* column version of that row
    running,      \* column running of that row
    pc,           \* per run(): the await it is suspended at
    stack,        \* per run(): the runScripts() activations, outermost first
    curVer,       \* per run(): const curVer of run()
    err,          \* per run(): the error run() rejected with
    session,      \* per run(): its dbCon: "none", "open", "closed" (end() called
                  \* once), "closedAgain" (end() called more than once)
    executed,     \* history: how often each entry was invoked
    applied,      \* history: the ordinals ever written to version
    execBy,       \* history: how many entries each run() invoked
    afterSuccess, \* history: run() was called after another run() resolved
    ranOrds,      \* history: the ordinals each run() invoked a script of
    writes        \* history: how often finalize() wrote the version

vars == <<dir, failing, tableOf, otherTable, advLock, tableLock, tableExists, hasRow, version, running,
          pc, stack, curVer, err, session, executed, applied, execBy,
          afterSuccess, ranOrds, writes>>

dbVars == <<tableExists, hasRow, version, running>>
histVars == <<executed, applied, execBy, afterSuccess, ranOrds, writes>>

----------------------------------------------------------------------------
(* The migration script directory *)

NoEntry == <<>>

\* The ways the files of ordinal n can show up in a listing: none, one of
\* the two kinds, or both in either order.
Block(n) ==
    { <<>>, << <<n, "js">> >>, << <<n, "sql">> >>,
      << <<n, "js">>, <<n, "sql">> >>, << <<n, "sql">>, <<n, "js">> >> }

RECURSIVE ListingsUpTo(_)
ListingsUpTo(n) ==
    IF n = 0 THEN { <<>> }
    ELSE { l \o b : l \in ListingsUpTo(n - 1), b \in Block(n) }

Listings == ListingsUpTo(MaxOrd)

\* The listings that hold an entry for TopOrd and none for some lower
\* ordinal.
GapListings ==
    { l \in ListingsUpTo(TopOrd) :
          /\ \E k \in 1..Len(l) : l[k][1] = TopOrd
          /\ \E n \in 1..MaxOrd : \A k \in 1..Len(l) : l[k][1] # n }

Range(s) == { s[k] : k \in 1..Len(s) }

\* Plausible bug: the next file at or above the wanted ordinal is taken.
IsMatch_AtLeast(item, startVersion) == item[1] >= startVersion

\* item === startVersion + '.js'  /  item === startVersion + '.sql'
IsMatch(item, startVersion) ==
    \/ item = <<startVersion, "js">>
    \/ item = <<startVersion, "sql">>

\* The first index >= from of the loop over items whose item matches; 0 if
\* the loop runs off the end.
NextMatch(items, startVersion, from) ==
    LET hits == { k \in from..Len(items) : IsMatch(items[k], startVersion) }
    IN  IF hits = {} THEN 0
        ELSE CHOOSE k \in hits : \A h \in hits : k <= h

\* Plausible bug: the stored version is ignored and scripts restart at 1.
FirstOrdinal_Restart(cv) == 1

\* run(): await this.runScripts(dbCon, curVer + 1)
FirstOrdinal(cv) == cv + 1

\* Plausible bug: off by one, finalize() records the ordinal before the one
\* that ran.
NewVersion_Previous(startVersion) == startVersion - 1

\* finalize(): SET version = Number(startVersion)
NewVersion(startVersion) == startVersion

\* finalize(): await that.runScripts(dbCon, Number(startVersion) + 1)
NextOrdinal(startVersion) == startVersion + 1

\* A runScripts() activation: its startVersion and its loop index i
\* (1-based here).
Frame(sv) == [sv |-> sv, i |-> 1]

\* Continue the loop of the innermost activation from its index; when the
\* loop ends the activation returns and its caller's loop goes on with the
\* item after the one it had run.  <<>>: the outermost runScripts() returned.
RECURSIVE Resume(_, _)
Resume(items, frames) ==
    IF frames = <<>> THEN <<>>
    ELSE LET top  == frames[Len(frames)]
             k    == NextMatch(items, top.sv, top.i)
             rest == SubSeq(frames, 1, Len(frames) - 1)
         IN  IF k # 0 THEN [frames EXCEPT ![Len(frames)].i = k]
             ELSE IF rest = <<>> THEN <<>>
             ELSE Resume(items, [rest EXCEPT ![Len(rest)].i = @ + 1])

----------------------------------------------------------------------------
(* Initial state: a fresh database, nothing started *)

\* A fresh database and a directory out of listings; no run() has touched
\* anything.
FreshOn(listings) ==
    /\ dir \in listings
    /\ failing \in { {} } \cup { {e} : e \in Range(dir) }
    /\ advLock = 0
    /\ tableLock = 0
    /\ tableExists = FALSE
    /\ hasRow = FALSE
    /\ version = 0
    /\ running = 0
    /\ otherTable = [tableExists |-> FALSE, hasRow |-> FALSE, version |-> 0, running |-> 0]
    /\ stack = [p \in Runs |-> <<>>]
    /\ curVer = [p \in Runs |-> 0]
    /\ err = [p \in Runs |-> NoEntry]
    /\ executed = [e \in Entries |-> 0]
    /\ applied = {}
    /\ execBy = [p \in Runs |-> 0]
    /\ afterSuccess = [p \in Runs |-> FALSE]
    /\ ranOrds = [p \in Runs |-> {}]
    /\ writes = 0

Fresh == FreshOn(Listings)

\* Every DbMigration instance uses the default table name.
OneTable == tableOf = [p \in Runs |-> Default]

Init ==
    /\ Fresh
    /\ OneTable
    /\ pc = [p \in Runs |-> "idle"]
    /\ session = [p \in Runs |-> "none"]

----------------------------------------------------------------------------
(* run(), advisory-lock implementation *)

\* Plausible bug: the lock query's answer is not looked at.
LockGranted_Always(holder, p) == TRUE

\* pg_try_advisory_lock(1) answers true when no other session holds the key.
LockGranted(holder, p) == holder = 0 \/ holder = p

\* Plausible bug: the unlock query is left out.
AfterUnlock_Kept(holder, p) == holder

\* pg_advisory_unlock(1) releases the key if this session holds it.
AfterUnlock(holder, p) == IF holder = p THEN 0 ELSE holder

\* Plausible bug: a refused lock is reported as an error.
AfterRefusal_Reject == "rejected"

\* isLocked is not true: the else branch of the while loop, line 69.
AfterRefusal == "backoff"

\* dbCon.end() closes the session.
AfterEnd(s) == IF s = "open" THEN "closed" ELSE "closedAgain"

\* const dbCon = await db.getConnection();
\* (The runs are numbered in the order they are called.)
GetConnection(p) ==
    /\ pc[p] = "idle"
    /\ \A q \in 1..(p - 1) : pc[q] # "idle"
    /\ pc' = [pc EXCEPT ![p] = "lock"]
    /\ session' = [session EXCEPT ![p] = "open"]
    /\ afterSuccess' = [afterSuccess EXCEPT ![p] = \E q \in Runs : pc[q] = "done"]
    /\ UNCHANGED <<dir, failing, tableOf, otherTable, tableLock, advLock, dbVars, stack, curVer, err,
                   executed, applied, execBy, ranOrds, writes>>

\* Plausible bug (the spec's wording): the key is derived from the table
\* name.
LockKey_PerTable(tableName) == tableName

\* The key of pg_try_advisory_lock(1): the literal 1, whatever the table
\* name.
LockKey(tableName) == 1

\* The session holding the advisory lock of key k (0: nobody).
HolderOfKey(k) ==
    IF advLock # 0 /\ LockKey(tableOf[advLock]) = k THEN advLock ELSE 0

\* await dbCon.query('SELECT pg_try_advisory_lock(1) AS "isLocked"')
TryAdvisoryLock(p) ==
    /\ pc[p] = "lock"
    /\ IF LockGranted(HolderOfKey(LockKey(tableOf[p])), p)
       THEN /\ advLock' = p
            /\ pc' = [pc EXCEPT ![p] = "create"]
       ELSE /\ advLock' = advLock
            /\ pc' = [pc EXCEPT ![p] = AfterRefusal]
    /\ UNCHANGED <<dir, failing, tableOf, otherTable, session, tableLock, dbVars, stack, curVer, err, histVars>>

\* await new Promise(resolve => setTimeout(resolve, 50));
Backoff(p) ==
    /\ pc[p] = "backoff"
    /\ pc' = [pc EXCEPT ![p] = "lock"]
    /\ UNCHANGED <<dir, failing, tableOf, otherTable, session, tableLock, advLock, dbVars, stack, curVer, err, histVars>>

\* CREATE TABLE ...; error 42P07 (the table exists) is swallowed.
CreateTable(p) ==
    /\ pc[p] = "create"
    /\ IF tableOf[p] = Default
       THEN tableExists' = TRUE /\ otherTable' = otherTable
       ELSE tableExists' = tableExists
            /\ otherTable' = [otherTable EXCEPT !.tableExists = TRUE]
    /\ pc' = [pc EXCEPT ![p] = "insert"]
    /\ UNCHANGED <<dir, failing, tableOf, session, tableLock, advLock, hasRow, version, running,
                   stack, curVer, err, histVars>>

\* Plausible bug: the first record is inserted as running.
FirstRecord_Running == [version |-> 0, running |-> 1]

\* VALUES(1, 0, 0): id 1, version 0, running 0.
FirstRecord == [version |-> 0, running |-> 0]

\* INSERT INTO ... VALUES(1, 0, 0) ON CONFLICT DO NOTHING;
InsertFirstRecord(p) ==
    /\ pc[p] = "insert"
    /\ IF tableOf[p] = Default
       THEN /\ hasRow' = TRUE
            /\ version' = IF hasRow THEN version ELSE FirstRecord.version
            /\ running' = IF hasRow THEN running ELSE FirstRecord.running
            /\ otherTable' = otherTable
       ELSE /\ otherTable' = IF otherTable.hasRow THEN otherTable
                             ELSE [otherTable EXCEPT !.hasRow = TRUE,
                                                     !.version = FirstRecord.version,
                                                     !.running = FirstRecord.running]
            /\ UNCHANGED <<hasRow, version, running>>
    /\ pc' = [pc EXCEPT ![p] = "select"]
    /\ UNCHANGED <<dir, failing, tableOf, session, tableLock, advLock, tableExists, stack, curVer, err, histVars>>

\* SELECT version FROM "<tableName>"
VersionIn(tableName) ==
    IF tableName = Default THEN version ELSE otherTable.version

\* const curVer = verRes.rows[0].version; then runScripts(dbCon, curVer + 1)
\* is entered and suspends in fs.readdir.
ReadVersion(p) ==
    /\ pc[p] = "select"
    /\ curVer' = [curVer EXCEPT ![p] = VersionIn(tableOf[p])]
    /\ stack' = [stack EXCEPT ![p] = << Frame(FirstOrdinal(VersionIn(tableOf[p]))) >>]
    /\ pc' = [pc EXCEPT ![p] = "readdir"]
    /\ UNCHANGED <<dir, failing, tableOf, otherTable, session, tableLock, advLock, dbVars, err, histVars>>

\* fs.readdir resolves; the for loop runs up to the first matching item
\* (whose script is then started) or off the end, returning to the callers.
ReadDir(p) ==
    /\ pc[p] = "readdir"
    /\ LET frames == Resume(dir, stack[p])
       IN  /\ stack' = [stack EXCEPT ![p] = frames]
           /\ pc' = [pc EXCEPT ![p] = IF frames = <<>> THEN "clearRunning" ELSE "exec"]
    /\ UNCHANGED <<dir, failing, tableOf, otherTable, session, tableLock, advLock, dbVars, curVer, err, histVars>>

\* await migrationScript({ db: dbCon, log })  /  await dbCon.query(<file>)
\* It throws: run() catches at line 106.
RunScript(p) ==
    /\ pc[p] = "exec"
    /\ LET top == stack[p][Len(stack[p])]
           e   == dir[top.i]
       IN  /\ executed' = [executed EXCEPT ![e] = @ + 1]
           /\ execBy' = [execBy EXCEPT ![p] = @ + 1]
           /\ ranOrds' = [ranOrds EXCEPT ![p] = @ \cup {e[1]}]
           /\ IF e \in failing
              THEN /\ err' = [err EXCEPT ![p] = e]
                   /\ stack' = [stack EXCEPT ![p] = <<>>]
                   /\ pc' = [pc EXCEPT ![p] = "unlockErr"]
              ELSE /\ err' = err
                   /\ stack' = stack
                   /\ pc' = [pc EXCEPT ![p] = "finalize"]
    /\ UNCHANGED <<dir, failing, tableOf, otherTable, session, tableLock, advLock, dbVars, curVer, applied, afterSuccess,
                   writes>>

\* finalize(): UPDATE ... SET version = startVersion; then
\* runScripts(dbCon, startVersion + 1) is entered and suspends in fs.readdir.
Finalize(p) ==
    /\ pc[p] = "finalize"
    /\ LET top == stack[p][Len(stack[p])]
       IN  /\ IF tableOf[p] = Default
              THEN /\ version' = IF hasRow THEN NewVersion(top.sv) ELSE version
                   /\ applied' = IF hasRow THEN applied \cup {NewVersion(top.sv)}
                                  ELSE applied
                   /\ otherTable' = otherTable
              ELSE /\ otherTable' = IF otherTable.hasRow
                                    THEN [otherTable EXCEPT !.version = NewVersion(top.sv)]
                                    ELSE otherTable
                   /\ UNCHANGED <<version, applied>>
           /\ writes' = writes + 1
           /\ stack' = [stack EXCEPT ![p] = Append(@, Frame(NextOrdinal(top.sv)))]
    /\ pc' = [pc EXCEPT ![p] = "readdir"]
    /\ UNCHANGED <<dir, failing, tableOf, session, tableLock, advLock, tableExists, hasRow, running,
                   curVer, err, executed, execBy, afterSuccess, ranOrds>>

\* catch: await dbCon.query('SELECT pg_advisory_unlock(1);');
UnlockAfterError(p) ==
    /\ pc[p] = "unlockErr"
    /\ advLock' = AfterUnlock(advLock, p)
    /\ pc' = [pc EXCEPT ![p] = "endErr"]
    /\ UNCHANGED <<dir, failing, tableOf, otherTable, session, tableLock, dbVars, stack, curVer, err, histVars>>

\* catch: await dbCon.end(); throw err;
EndAfterError(p) ==
    /\ pc[p] = "endErr"
    /\ pc' = [pc EXCEPT ![p] = "rejected"]
    /\ session' = [session EXCEPT ![p] = AfterEnd(@)]
    /\ UNCHANGED <<dir, failing, tableOf, otherTable, tableLock, advLock, dbVars, stack, curVer, err, histVars>>

\* await dbCon.query('UPDATE ... SET running = 0;');
ClearRunning(p) ==
    /\ pc[p] = "clearRunning"
    /\ IF tableOf[p] = Default
       THEN running' = 0 /\ otherTable' = otherTable
       ELSE running' = running /\ otherTable' = [otherTable EXCEPT !.running = 0]
    /\ pc' = [pc EXCEPT ![p] = "unlock"]
    /\ UNCHANGED <<dir, failing, tableOf, session, tableLock, advLock, tableExists, hasRow, version,
                   stack, curVer, err, histVars>>

\* await dbCon.query('SELECT pg_advisory_unlock(1);');
Unlock(p) ==
    /\ pc[p] = "unlock"
    /\ advLock' = AfterUnlock(advLock, p)
    /\ pc' = [pc EXCEPT ![p] = "end"]
    /\ UNCHANGED <<dir, failing, tableOf, otherTable, session, tableLock, dbVars, stack, curVer, err, histVars>>

\* await dbCon.end(); run() resolves.
End(p) ==
    /\ pc[p] = "end"
    /\ pc' = [pc EXCEPT ![p] = "done"]
    /\ session' = [session EXCEPT ![p] = AfterEnd(@)]
    /\ UNCHANGED <<dir, failing, tableOf, otherTable, tableLock, advLock, dbVars, stack, curVer, err, histVars>>

Step(p) ==
    \/ TryAdvisoryLock(p)
    \/ Backoff(p)
    \/ CreateTable(p)
    \/ InsertFirstRecord(p)
    \/ ReadVersion(p)
    \/ ReadDir(p)
    \/ RunScript(p)
    \/ Finalize(p)
    \/ UnlockAfterError(p)
    \/ EndAfterError(p)
    \/ ClearRunning(p)
    \/ Unlock(p)
    \/ End(p)

Next == \E p \in Runs : GetConnection(p) \/ Step(p)

Spec == Init /\ [][Next]_vars

\* The runs 1..k have been started together (each has its connection and is
\* about to ask for the lock); the others are never started.
InitStarted ==
    /\ Fresh
    /\ OneTable
    /\ \E k \in 1..NumRuns :
           /\ pc = [p \in Runs |-> IF p <= k THEN "lock" ELSE "idle"]
           /\ session = [p \in Runs |-> IF p <= k THEN "open" ELSE "none"]

NextStarted == \E p \in Runs : Step(p)

\* Every continuation of a started run() is eventually run by the event loop.
FairSpec == InitStarted /\ [][NextStarted]_vars /\ \A p \in Runs : WF_vars(Step(p))

----------------------------------------------------------------------------
(* run(), advisory-lock implementation, with failing infrastructure: the     *)
(* connection, a query of run() or the directory listing may fail.  An error *)
(* that is no script's is recorded as <<0, what failed>>.                    *)

Fault(what) == <<0, what>>

\* Plausible bug: a failed lock query is treated like a refused lock.
AfterLockError_Retry == "backoff"

\* Line 63 stands in no try block: its rejection is run()'s.
AfterLockError == "rejected"

\* Plausible bug: a failed listing is treated like an empty one.
AfterListingError_Empty == "clearRunning"

\* readdir's error rejects runScripts(); run() catches it at line 106.
AfterListingError == "unlockErr"

\* await db.getConnection() rejects: so does run().
GetConnectionFails(p) ==
    /\ pc[p] = "idle"
    /\ \A q \in 1..(p - 1) : pc[q] # "idle"
    /\ pc' = [pc EXCEPT ![p] = "rejected"]
    /\ err' = [err EXCEPT ![p] = Fault("connect")]
    /\ UNCHANGED <<dir, failing, tableOf, otherTable, session, tableLock, advLock, dbVars, stack, curVer, histVars>>

\* The lock query rejects: so does run(), out of the while loop.
TryAdvisoryLockFails(p) ==
    /\ pc[p] = "lock"
    /\ pc' = [pc EXCEPT ![p] = AfterLockError]
    /\ err' = [err EXCEPT ![p] = Fault("lock")]
    /\ UNCHANGED <<dir, failing, tableOf, otherTable, session, tableLock, advLock, dbVars, stack, curVer, histVars>>

\* CREATE TABLE fails with another code than 42P07: lines 86-90 release the
\* lock, end the session and rethrow.
CreateTableFails(p) ==
    /\ pc[p] = "create"
    /\ pc' = [pc EXCEPT ![p] = "unlockErr"]
    /\ err' = [err EXCEPT ![p] = Fault("create")]
    /\ UNCHANGED <<dir, failing, tableOf, otherTable, session, tableLock, advLock, dbVars, stack, curVer, histVars>>

\* The INSERT of line 95 rejects; it stands in no try block, run() rejects.
InsertFirstRecordFails(p) ==
    /\ pc[p] = "insert"
    /\ pc' = [pc EXCEPT ![p] = "rejected"]
    /\ err' = [err EXCEPT ![p] = Fault("insert")]
    /\ UNCHANGED <<dir, failing, tableOf, otherTable, session, tableLock, advLock, dbVars, stack, curVer, histVars>>

\* The SELECT of line 98 rejects; it stands in no try block, run() rejects.
ReadVersionFails(p) ==
    /\ pc[p] = "select"
    /\ pc' = [pc EXCEPT ![p] = "rejected"]
    /\ err' = [err EXCEPT ![p] = Fault("select")]
    /\ UNCHANGED <<dir, failing, tableOf, otherTable, session, tableLock, advLock, dbVars, stack, curVer, histVars>>

\* fs.readdir calls back with an error: every runScripts() activation
\* rejects (finalize() and the loop await without catching).
ReadDirFails(p) ==
    /\ pc[p] = "readdir"
    /\ stack' = [stack EXCEPT ![p] = <<>>]
    /\ pc' = [pc EXCEPT ![p] = AfterListingError]
    /\ err' = [err EXCEPT ![p] = Fault("readdir")]
    /\ UNCHANGED <<dir, failing, tableOf, otherTable, session, tableLock, advLock, dbVars, curVer, histVars>>

FaultStep(p) ==
    \/ TryAdvisoryLockFails(p)
    \/ CreateTableFails(p)
    \/ InsertFirstRecordFails(p)
    \/ ReadVersionFails(p)
    \/ ReadDirFails(p)

NextFault ==
    \E p \in Runs :
        GetConnection(p) \/ GetConnectionFails(p) \/ Step(p) \/ FaultStep(p)

SpecFault == Init /\ [][NextFault]_vars

\* The same run() on a directory with a missing ordinal.
InitGap ==
    /\ FreshOn(GapListings)
    /\ OneTable
    /\ pc = [p \in Runs |-> "idle"]
    /\ session = [p \in Runs |-> "none"]

SpecGap == InitGap /\ [][Next]_vars

\* The same run() with DbMigration instances of two table names on one
\* database: the first uses the default, at least one the other name.
InitTables ==
    /\ Fresh
    /\ tableOf \in { f \in [Runs -> Tables] :
                        f[1] = Default /\ \E p \in Runs : f[p] # Default }
    /\ pc = [p \in Runs |-> "idle"]
    /\ session = [p \in Runs |-> "none"]

SpecTables == InitTables /\ [][Next]_vars

----------------------------------------------------------------------------
(* run(), table-lock-and-flag implementation (src/unnamed/part_002)         *)
(* Every statement outside getLock() goes through db.query, a session of    *)
(* its own; a statement on the tracking table waits while another           *)
(* transaction holds LOCK TABLE on it.                                      *)

\* No other transaction holds the table lock.
TableFree(p) == tableLock = 0 \/ tableLock = p

\* await db.query('CREATE TABLE ...'); error 42P07 is swallowed.
\* (The runs are numbered in the order they are called.)
FlagCreateTable(p) ==
    /\ pc[p] = "idle"
    /\ \A q \in 1..(p - 1) : pc[q] # "idle"
    /\ tableExists' = TRUE
    /\ afterSuccess' = [afterSuccess EXCEPT ![p] = \E q \in Runs : pc[q] = "done"]
    /\ pc' = [pc EXCEPT ![p] = "f_insert"]
    /\ UNCHANGED <<dir, failing, tableOf, otherTable, session, advLock, tableLock, hasRow, version, running,
                   stack, curVer, err, executed, applied, execBy, ranOrds, writes>>

\* await db.query('INSERT INTO ... VALUES(1, 0, 0) ON CONFLICT DO NOTHING;');
FlagInsertFirstRecord(p) ==
    /\ pc[p] = "f_insert"
    /\ TableFree(p)
    /\ hasRow' = TRUE
    /\ version' = IF hasRow THEN version ELSE 0
    /\ running' = IF hasRow THEN running ELSE 0
    /\ pc' = [pc EXCEPT ![p] = "f_lockTable"]
    /\ UNCHANGED <<dir, failing, tableOf, otherTable, session, advLock, tableLock, tableExists,
                   stack, curVer, err, histVars>>

\* Plausible bug: LOCK TABLE is issued outside a transaction and excludes
\* nobody.
LockTableGranted_Always(holder) == TRUE

\* LOCK TABLE returns once no other transaction holds a lock on the table.
LockTableGranted(holder) == holder = 0

\* getLock(): getConnection(), BEGIN, then LOCK TABLE, which waits for the
\* transaction holding the lock to end.
FlagLockTable(p) ==
    /\ pc[p] = "f_lockTable"
    /\ LockTableGranted(tableLock)
    /\ tableLock' = p
    /\ pc' = [pc EXCEPT ![p] = "f_selectRunning"]
    /\ UNCHANGED <<dir, failing, tableOf, otherTable, session, advLock, dbVars, stack, curVer, err, histVars>>

\* getLock(): SELECT running, and the branch taken on its answer.  (The
\* rows.length === 0 branch is not reachable: run() has inserted the row.)
FlagSelectRunning(p) ==
    /\ pc[p] = "f_selectRunning"
    /\ pc' = [pc EXCEPT ![p] =
                 IF ~hasRow THEN "f_commitNoRow"
                 ELSE IF running # 0 THEN "f_commitBusy"
                 ELSE "f_setRunning"]
    /\ UNCHANGED <<dir, failing, tableOf, otherTable, session, advLock, tableLock, dbVars, stack, curVer,
                   err, histVars>>

\* getLock(), running !== 0: COMMIT; dbCon.end();
FlagCommitBusy(p) ==
    /\ pc[p] = "f_commitBusy"
    /\ tableLock' = 0
    /\ pc' = [pc EXCEPT ![p] = "f_backoff"]
    /\ UNCHANGED <<dir, failing, tableOf, otherTable, session, advLock, dbVars, stack, curVer, err, histVars>>

\* getLock(): await lUtils.setTimeout(500); await this.getLock();
FlagBackoff(p) ==
    /\ pc[p] = "f_backoff"
    /\ pc' = [pc EXCEPT ![p] = "f_lockTable"]
    /\ UNCHANGED <<dir, failing, tableOf, otherTable, session, advLock, tableLock, dbVars, stack, curVer,
                   err, histVars>>

\* getLock(): UPDATE ... SET running = 1
FlagSetRunning(p) ==
    /\ pc[p] = "f_setRunning"
    /\ running' = 1
    /\ pc' = [pc EXCEPT ![p] = "f_commit"]
    /\ UNCHANGED <<dir, failing, tableOf, otherTable, session, advLock, tableLock, tableExists, hasRow, version,
                   stack, curVer, err, histVars>>

\* getLock(): COMMIT; dbCon.end(); getLock() returns.
FlagCommit(p) ==
    /\ pc[p] = "f_commit"
    /\ tableLock' = 0
    /\ pc' = [pc EXCEPT ![p] = "f_select"]
    /\ UNCHANGED <<dir, failing, tableOf, otherTable, session, advLock, dbVars, stack, curVer, err, histVars>>

\* const curVer = verRes.rows[0].version; runScripts(curVer + 1) is entered.
FlagReadVersion(p) ==
    /\ pc[p] = "f_select"
    /\ TableFree(p)
    /\ curVer' = [curVer EXCEPT ![p] = version]
    /\ stack' = [stack EXCEPT ![p] = << Frame(FirstOrdinal(version)) >>]
    /\ pc' = [pc EXCEPT ![p] = "f_readdir"]
    /\ UNCHANGED <<dir, failing, tableOf, otherTable, session, advLock, tableLock, dbVars, err, histVars>>

\* runScripts(): fs.readdir resolves and the loop runs to the next match.
FlagReadDir(p) ==
    /\ pc[p] = "f_readdir"
    /\ LET frames == Resume(dir, stack[p])
       IN  /\ stack' = [stack EXCEPT ![p] = frames]
           /\ pc' = [pc EXCEPT ![p] = IF frames = <<>> THEN "f_clearRunning" ELSE "f_exec"]
    /\ UNCHANGED <<dir, failing, tableOf, otherTable, session, advLock, tableLock, dbVars, curVer, err, histVars>>

\* runScripts(): the script or the SQL file runs.  Line 91 of run() stands
\* in no try block: an error leaves run() there, line 94 is not reached.
FlagRunScript(p) ==
    /\ pc[p] = "f_exec"
    /\ LET top == stack[p][Len(stack[p])]
           e   == dir[top.i]
       IN  /\ executed' = [executed EXCEPT ![e] = @ + 1]
           /\ execBy' = [execBy EXCEPT ![p] = @ + 1]
           /\ ranOrds' = [ranOrds EXCEPT ![p] = @ \cup {e[1]}]
           /\ IF e \in failing
              THEN /\ err' = [err EXCEPT ![p] = e]
                   /\ stack' = [stack EXCEPT ![p] = <<>>]
                   /\ pc' = [pc EXCEPT ![p] = "rejected"]
              ELSE /\ err' = err
                   /\ stack' = stack
                   /\ pc' = [pc EXCEPT ![p] = "f_finalize"]
    /\ UNCHANGED <<dir, failing, tableOf, otherTable, session, advLock, tableLock, dbVars, curVer, applied,
                   afterSuccess, writes>>

\* finalize(): UPDATE ... SET version = startVersion; runScripts(startVersion + 1)
FlagFinalize(p) ==
    /\ pc[p] = "f_finalize"
    /\ TableFree(p)
    /\ LET top == stack[p][Len(stack[p])]
       IN  /\ version' = IF hasRow THEN NewVersion(top.sv) ELSE version
           /\ applied' = IF hasRow THEN applied \cup {NewVersion(top.sv)} ELSE applied
           /\ writes' = writes + 1
           /\ stack' = [stack EXCEPT ![p] = Append(@, Frame(NextOrdinal(top.sv)))]
    /\ pc' = [pc EXCEPT ![p] = "f_readdir"]
    /\ UNCHANGED <<dir, failing, tableOf, otherTable, session, advLock, tableLock, tableExists, hasRow, running,
                   curVer, err, executed, execBy, afterSuccess, ranOrds>>

\* await db.query('UPDATE ... SET running = 0;'); run() resolves.
FlagClearRunning(p) ==
    /\ pc[p] = "f_clearRunning"
    /\ TableFree(p)
    /\ running' = 0
    /\ pc' = [pc EXCEPT ![p] = "done"]
    /\ UNCHANGED <<dir, failing, tableOf, otherTable, session, advLock, tableLock, tableExists, hasRow, version,
                   stack, curVer, err, histVars>>

FlagStep(p) ==
    \/ FlagInsertFirstRecord(p)
    \/ FlagLockTable(p)
    \/ FlagSelectRunning(p)
    \/ FlagCommitBusy(p)
    \/ FlagBackoff(p)
    \/ FlagSetRunning(p)
    \/ FlagCommit(p)
    \/ FlagReadVersion(p)
    \/ FlagReadDir(p)
    \/ FlagRunScript(p)
    \/ FlagFinalize(p)
    \/ FlagClearRunning(p)

NextFlag == \E p \in Runs : FlagCreateTable(p) \/ FlagStep(p)

SpecFlag == Init /\ [][NextFlag]_vars

----------------------------------------------------------------------------
(* run(), older table-lock-and-flag implementation (src/src/index.ts lines  *)
(* 179-349).  getLock() takes a pooled connection and gives it back with    *)
(* dbCon.release(); a connection released inside a transaction goes back to *)
(* the pool with the transaction open and its table lock held.  Which       *)
(* connection the pool hands to the next db.query or getConnection() is not *)
(* decided by this code: a statement on the tracking table either gets      *)
(* another session (and waits while a lock is held) or the abandoned        *)
(* session itself (and runs inside its open transaction).                   *)

\* tableLock: the lock is held by a released session's open transaction.
Abandoned == NumRuns + 1

\* A statement on the tracking table sent on session s can run.
SessionRuns(s) ==
    IF s = "abandoned" THEN tableLock = Abandoned ELSE tableLock = 0

\* await db.query('CREATE TABLE IF NOT EXISTS ...');
\* (The runs are numbered in the order they are called.)
OldCreateTable(p) ==
    /\ pc[p] = "idle"
    /\ \A q \in 1..(p - 1) : pc[q] # "idle"
    /\ tableExists' = TRUE
    /\ afterSuccess' = [afterSuccess EXCEPT ![p] = \E q \in Runs : pc[q] = "done"]
    /\ pc' = [pc EXCEPT ![p] = "o_insert"]
    /\ UNCHANGED <<dir, failing, tableOf, otherTable, session, advLock, tableLock, hasRow, version, running,
                   stack, curVer, err, executed, applied, execBy, ranOrds, writes>>

\* await db.query('INSERT INTO ... VALUES(1, 0, 0) ON CONFLICT DO NOTHING;');
OldInsertFirstRecord(p, s) ==
    /\ pc[p] = "o_insert"
    /\ SessionRuns(s)
    /\ hasRow' = TRUE
    /\ version' = IF hasRow THEN version ELSE 0
    /\ running' = IF hasRow THEN running ELSE 0
    /\ pc' = [pc EXCEPT ![p] = "o_lockTable"]
    /\ UNCHANGED <<dir, failing, tableOf, otherTable, session, advLock, tableLock, tableExists,
                   stack, curVer, err, histVars>>

\* getLock(): getConnection(), BEGIN, LOCK TABLE.  On the abandoned session
\* the lock is already this session's.
OldLockTable(p, s) ==
    /\ pc[p] = "o_lockTable"
    /\ SessionRuns(s)
    /\ tableLock' = p
    /\ pc' = [pc EXCEPT ![p] = "o_selectRunning"]
    /\ UNCHANGED <<dir, failing, tableOf, otherTable, session, advLock, dbVars, stack, curVer, err, histVars>>

\* getLock(): SELECT running, and the branch taken on its answer.  (The
\* rows.length === 0 branch is not reachable: run() has inserted the row.)
OldSelectRunning(p) ==
    /\ pc[p] = "o_selectRunning"
    /\ pc' = [pc EXCEPT ![p] =
                 IF ~hasRow THEN "o_releaseNoRow"
                 ELSE IF running # 0 THEN "o_releaseBusy"
                 ELSE "o_setRunning"]
    /\ UNCHANGED <<dir, failing, tableOf, otherTable, session, advLock, tableLock, dbVars, stack, curVer,
                   err, histVars>>

\* getLock(), running !== 0: await dbCon.release(); no COMMIT, no ROLLBACK.
OldReleaseBusy(p) ==
    /\ pc[p] = "o_releaseBusy"
    /\ tableLock' = Abandoned
    /\ pc' = [pc EXCEPT ![p] = "o_backoff"]
    /\ UNCHANGED <<dir, failing, tableOf, otherTable, session, advLock, dbVars, stack, curVer, err, histVars>>

\* getLock(): await lUtils.setTimeout(500); await this.getLock();
OldBackoff(p) ==
    /\ pc[p] = "o_backoff"
    /\ pc' = [pc EXCEPT ![p] = "o_lockTable"]
    /\ UNCHANGED <<dir, failing, tableOf, otherTable, session, advLock, tableLock, dbVars, stack, curVer,
                   err, histVars>>

\* getLock(): UPDATE ... SET running = 1
OldSetRunning(p) ==
    /\ pc[p] = "o_setRunning"
    /\ running' = 1
    /\ pc' = [pc EXCEPT ![p] = "o_commit"]
    /\ UNCHANGED <<dir, failing, tableOf, otherTable, session, advLock, tableLock, tableExists, hasRow, version,
                   stack, curVer, err, histVars>>

\* getLock(): COMMIT; dbCon.release(); getLock() returns.
OldCommit(p) ==
    /\ pc[p] = "o_commit"
    /\ tableLock' = 0
    /\ pc' = [pc EXCEPT ![p] = "o_select"]
    /\ UNCHANGED <<dir, failing, tableOf, otherTable, session, advLock, dbVars, stack, curVer, err, histVars>>

\* const curVer = verRes.rows[0].version; runScripts(curVer + 1) is entered.
OldReadVersion(p, s) ==
    /\ pc[p] = "o_select"
    /\ SessionRuns(s)
    /\ curVer' = [curVer EXCEPT ![p] = version]
    /\ stack' = [stack EXCEPT ![p] = << Frame(FirstOrdinal(version)) >>]
    /\ pc' = [pc EXCEPT ![p] = "o_readdir"]
    /\ UNCHANGED <<dir, failing, tableOf, otherTable, session, advLock, tableLock, dbVars, err, histVars>>

\* runScripts(): fs.readdir resolves and the loop runs to the next match.
OldReadDir(p) ==
    /\ pc[p] = "o_readdir"
    /\ LET frames == Resume(dir, stack[p])
       IN  /\ stack' = [stack EXCEPT ![p] = frames]
           /\ pc' = [pc EXCEPT ![p] = IF frames = <<>> THEN "o_clearRunning" ELSE "o_exec"]
    /\ UNCHANGED <<dir, failing, tableOf, otherTable, session, advLock, tableLock, dbVars, curVer, err, histVars>>

\* runScripts(): the script or the SQL file runs.  Line 254 of run() stands
\* in no try block: an error leaves run() there, line 257 is not reached.
OldRunScript(p) ==
    /\ pc[p] = "o_exec"
    /\ LET top == stack[p][Len(stack[p])]
           e   == dir[top.i]
       IN  /\ executed' = [executed EXCEPT ![e] = @ + 1]
           /\ execBy' = [execBy EXCEPT ![p] = @ + 1]
           /\ ranOrds' = [ranOrds EXCEPT ![p] = @ \cup {e[1]}]
           /\ IF e \in failing
              THEN /\ err' = [err EXCEPT ![p] = e]
                   /\ stack' = [stack EXCEPT ![p] = <<>>]
                   /\ pc' = [pc EXCEPT ![p] = "rejected"]
              ELSE /\ err' = err
                   /\ stack' = stack
                   /\ pc' = [pc EXCEPT ![p] = "o_finalize"]
    /\ UNCHANGED <<dir, failing, tableOf, otherTable, session, advLock, tableLock, dbVars, curVer, applied,
                   afterSuccess, writes>>

\* runScripts(): UPDATE ... SET version = startVersion; then
\* runScripts(startVersion + 1) is entered.
OldFinalize(p, s) ==
    /\ pc[p] = "o_finalize"
    /\ SessionRuns(s)
    /\ LET top == stack[p][Len(stack[p])]
       IN  /\ version' = IF hasRow THEN NewVersion(top.sv) ELSE version
           /\ applied' = IF hasRow THEN applied \cup {NewVersion(top.sv)} ELSE applied
           /\ writes' = writes + 1
           /\ stack' = [stack EXCEPT ![p] = Append(@, Frame(NextOrdinal(top.sv)))]
    /\ pc' = [pc EXCEPT ![p] = "o_readdir"]
    /\ UNCHANGED <<dir, failing, tableOf, otherTable, session, advLock, tableLock, tableExists, hasRow, running,
                   curVer, err, executed, execBy, afterSuccess, ranOrds>>

\* await db.query('UPDATE ... SET running = 0;'); run() resolves.
OldClearRunning(p, s) ==
    /\ pc[p] = "o_clearRunning"
    /\ SessionRuns(s)
    /\ running' = 0
    /\ pc' = [pc EXCEPT ![p] = "done"]
    /\ UNCHANGED <<dir, failing, tableOf, otherTable, session, advLock, tableLock, tableExists, hasRow, version,
                   stack, curVer, err, histVars>>

\* The statements of run() p on the tracking table, sent on session s.
OldQuery(p, s) ==
    \/ OldInsertFirstRecord(p, s)
    \/ OldLockTable(p, s)
    \/ OldReadVersion(p, s)
    \/ OldFinalize(p, s)
    \/ OldClearRunning(p, s)

\* The continuations of run() p that the event loop and a database session
\* other than the abandoned one carry out.
OldStep(p) ==
    \/ OldQuery(p, "other")
    \/ OldSelectRunning(p)
    \/ OldReleaseBusy(p)
    \/ OldBackoff(p)
    \/ OldSetRunning(p)
    \/ OldCommit(p)
    \/ OldReadDir(p)
    \/ OldRunScript(p)

NextOld ==
    \E p \in Runs : OldCreateTable(p) \/ OldStep(p) \/ OldQuery(p, "abandoned")

SpecOld == Init /\ [][NextOld]_vars

\* Every continuation is eventually run; nothing makes the pool hand out
\* the abandoned session.
FairSpecOld == SpecOld /\ \A p \in Runs : WF_vars(OldStep(p))

----------------------------------------------------------------------------
(* Vocabulary of the properties *)

\* run() p is past lock acquisition and has not yet released the lock.
Holding(p) ==
    pc[p] \in {"create", "insert", "select", "readdir", "exec", "finalize",
               "clearRunning", "unlock", "unlockErr"}

\* run() p is in the retry loop of lines 62-71.
Retrying(p) == pc[p] \in {"lock", "backoff"}

\* run() p has released the lock, or returned.
Released(p) == pc[p] \in {"end", "endErr", "done", "rejected"}

Ordinals == { e[1] : e \in Range(dir) }
EntriesOf(n) == { e \in Range(dir) : e[1] = n }

\* The directory holds at most one entry per ordinal.
OnePerOrdinal == \A n \in 1..TopOrd : Cardinality(EntriesOf(n)) <= 1

\* The directory holds steps 1..N and nothing else, N being its largest ordinal.
StepsOneToN == \E N \in 0..MaxOrd : Ordinals = 1..N

\* How often step n (either of its entries) was invoked.
TimesRun(n) == executed[<<n, "js">>] + executed[<<n, "sql">>]

----------------------------------------------------------------------------
\* C1: advisory-lock run(): at any instant at most one invocation is between
\* its successful pg_try_advisory_lock and its pg_advisory_unlock, that
\* invocation's session holds the lock, and every other started invocation
\* is in the retry loop (or has already released).
C1_MutualExclusion ==
    \A p \in Runs :
        Holding(p) =>
            /\ advLock = p
            /\ \A q \in Runs \ {p} :
                   pc[q] = "idle" \/ Retrying(q) \/ Released(q)

\* A run executes a script while another one sleeps in the retry loop.
C1_Witness ==
    \E p, q \in Runs : pc[p] = "exec" /\ advLock = p /\ pc[q] = "backoff"

\* C2: K concurrent run() on a fresh target holding steps 1..N, one entry
\* per ordinal, none failing: no step is ever invoked more than once, and
\* once the started invocations have all resolved every step was invoked
\* exactly once and version = N.
C2_ConcurrentRunsApplyOnce ==
    (StepsOneToN /\ OnePerOrdinal /\ failing = {}) =>
        /\ \A e \in Range(dir) : executed[e] <= 1
        /\ ((\E p \in Runs : pc[p] = "done") /\
            (\A p \in Runs : pc[p] \in {"idle", "done"})) =>
               /\ \A e \in Range(dir) : executed[e] = 1
               /\ version = Len(dir)

\* All NumRuns invocations were started before any of them resolved, the
\* directory holds steps 1..MaxOrd, and all have resolved.
C2_Witness ==
    /\ StepsOneToN /\ OnePerOrdinal /\ failing = {}
    /\ Len(dir) = MaxOrd
    /\ \A p \in Runs : pc[p] = "done" /\ ~afterSuccess[p]
    /\ version = MaxOrd

\* C3: with one entry per ordinal, a step whose ordinal has been written to
\* the version record is never invoked again, by this or any later run():
\* the version is read by the lock holder only, and the first ordinal a run
\* attempts is the version it read + 1.
C3_NoReExecution ==
    [][ /\ OnePerOrdinal =>
               \A e \in Entries : executed'[e] # executed[e] => e[1] \notin applied
        /\ \A p \in Runs :
               (execBy[p] = 0 /\ execBy'[p] = 1) =>
                   /\ advLock = p
                   /\ curVer[p] = version
                   /\ \E e \in Entries :
                          executed'[e] # executed[e] /\ e[1] = version + 1
      ]_vars

\* A run that found version >= 1 already recorded went on to invoke a step.
C3_Witness ==
    /\ OnePerOrdinal
    /\ \E p \in Runs : curVer[p] >= 1 /\ execBy[p] >= 1

\* run() p is on the failure path of lines 106-113 or has rejected.
Failed(p) == pc[p] \in {"unlockErr", "endErr", "rejected"}

\* run() p is the only invocation started so far.
Alone(p) == \A q \in Runs \ {p} : pc[q] = "idle"

\* C4: steps 1..N present, none failing: a single run() from a fresh target
\* does not fail and ends with version = N and every step 1..N invoked
\* exactly once.
C4_SingleRunAppliesAll ==
    (StepsOneToN /\ failing = {}) =>
        \A p \in Runs :
            Alone(p) =>
                /\ ~Failed(p)
                /\ pc[p] = "done" =>
                       /\ version = Cardinality(Ordinals)
                       /\ \A n \in Ordinals : TimesRun(n) = 1

\* The part of C4 the code keeps: the same with one entry per ordinal.
C4_SingleRunOneEntryPerOrdinal == OnePerOrdinal => C4_SingleRunAppliesAll

\* C5: a run() called after a run() has resolved invokes no step, does not
\* fail, and none of its steps changes the version record (version, running,
\* the single row); when it resolves running = 0 and the row is there.
C5_Idempotent ==
    [][ \A p \in Runs :
            afterSuccess'[p] =>
                /\ ~Failed(p)'
                /\ execBy'[p] = 0
                /\ pc'[p] # pc[p] =>
                       /\ version' = version
                       /\ running' = running
                       /\ hasRow' = hasRow /\ tableExists' = tableExists
                       /\ executed' = executed
                /\ pc'[p] = "done" => (running' = 0 /\ hasRow' /\ tableExists')
      ]_vars

\* A second run() has resolved on a target a first run() had brought to
\* version >= 1.
C5_Witness ==
    \E p \in Runs : afterSuccess[p] /\ pc[p] = "done" /\ version >= 1

\* C6: when run() rejects with the error of step k, version = k - 1, no
\* step after k was invoked, running = 0 and the lock is released.
C6_StepFailure ==
    \A p \in Runs :
        pc[p] = "rejected" =>
            /\ err[p] \in failing
            /\ version = err[p][1] - 1
            /\ \A n \in Ordinals : n > err[p][1] => TimesRun(n) = 0
            /\ running = 0
            /\ advLock # p

\* The part of C6 the code keeps: the same with one entry per ordinal.
C6_StepFailureOneEntryPerOrdinal == OnePerOrdinal => C6_StepFailure

\* C7: when n.js and n.sql both exist, n.sql is never invoked.
C7_ProceduralPrecedence ==
    \A n \in 1..MaxOrd :
        (<<n, "js">> \in Range(dir) /\ <<n, "sql">> \in Range(dir)) =>
            executed[<<n, "sql">>] = 0

\* C8: the persisted version never decreases, and every write of finalize()
\* sets it to its previous value + 1.
C8_VersionStepsByOne ==
    [][ /\ version' >= version
        /\ \A p \in Runs :
               (pc[p] = "finalize" /\ pc'[p] # "finalize") => version' = version + 1
      ]_vars

\* The part of C8 the code keeps: the same with one entry per ordinal.
C8_VersionStepsByOneOneEntryPerOrdinal ==
    [][ OnePerOrdinal =>
            /\ version' >= version
            /\ \A p \in Runs :
                   (pc[p] = "finalize" /\ pc'[p] # "finalize") => version' = version + 1
      ]_vars

\* C9: under fair scheduling every started run() eventually resolves or
\* rejects; no waiter stays in the retry loop forever.
C9_AllRunsComplete ==
    \A p \in Runs : (pc[p] # "idle") ~> (pc[p] \in {"done", "rejected"})

\* All NumRuns invocations were in flight together, a script failed, and
\* all of them have returned.
C9_Witness ==
    /\ OnePerOrdinal /\ failing # {}
    /\ \A p \in Runs : pc[p] \in {"done", "rejected"} /\ ~afterSuccess[p]
    /\ \E p \in Runs : pc[p] = "rejected"

\* run() p (flag implementation) has set running = 1 in getLock() and has
\* not yet written running = 0.
FlagHolding(p) ==
    pc[p] \in {"f_commit", "f_select", "f_readdir", "f_exec", "f_finalize",
               "f_clearRunning"}

\* The part of C10 the code keeps: the same when no script fails.
C10_RunningOnlyWhileHeldNoError ==
    failing = {} => (running = 1 => \E p \in Runs : FlagHolding(p))

\* C10: flag implementation: running is 1 only while some run() is between
\* its lock acquisition and its release; in particular it is 0 again once a
\* run() has rejected with a script's error and nobody else holds the lock.
C10_RunningOnlyWhileHeld ==
    running = 1 => \E p \in Runs : FlagHolding(p)

\* run() p has returned after having been granted the advisory lock.
ReturnedAfterLock(p) ==
    \/ pc[p] = "done"
    \/ pc[p] = "rejected" /\ err[p] \notin {Fault("connect"), Fault("lock")}

\* The exits of run() that release and close: success, a script's or the
\* listing's error (lines 106-113), a table-creation error (lines 86-90).
C11_ReleasedAndClosedOnHandledExits ==
    \A p \in Runs :
        (ReturnedAfterLock(p) /\ err[p] \notin {Fault("insert"), Fault("select")}) =>
            advLock # p /\ session[p] = "closed"

\* C11: advisory-lock run(): on every exit after the lock was granted
\* (success, step failure, table-creation failure, first-row insertion
\* failure, version read failure) the lock has been released and the
\* session closed exactly once.
C11_ReleasedAndClosedOnExit ==
    \A p \in Runs :
        ReturnedAfterLock(p) => advLock # p /\ session[p] = "closed"

\* The ordinal of the script a step of the model invokes (0: none).
OrdinalInvoked(before, after) ==
    IF \E e \in Entries : after[e] # before[e]
    THEN (CHOOSE e \in Entries : after[e] # before[e])[1]
    ELSE 0

\* C12: within one run() steps are invoked in strictly increasing ordinal
\* order, each ordinal at most once and one at a time: a script is only
\* started by a run() that has no script in progress, and its ordinal is
\* higher than every ordinal that run() has invoked before.
C12_IncreasingOrdinals ==
    [][ \A p \in Runs :
            execBy'[p] # execBy[p] =>
                /\ pc[p] = "exec" /\ pc'[p] \in {"finalize", "unlockErr"}
                /\ execBy'[p] = execBy[p] + 1
                /\ \A m \in ranOrds[p] : m < OrdinalInvoked(executed, executed')
      ]_vars

\* The part of C12 the code keeps: the same with one entry per ordinal.
C12_IncreasingOrdinalsOneEntryPerOrdinal ==
    [][ OnePerOrdinal =>
            \A p \in Runs :
                execBy'[p] # execBy[p] =>
                    /\ pc[p] = "exec" /\ pc'[p] \in {"finalize", "unlockErr"}
                    /\ execBy'[p] = execBy[p] + 1
                    /\ \A m \in ranOrds[p] : m < OrdinalInvoked(executed, executed')
      ]_vars

\* The sum of f[1..n].
RECURSIVE SumTo(_, _)
SumTo(f, n) == IF n = 0 THEN 0 ELSE f[n] + SumTo(f, n - 1)

\* The script invocations that have returned without error and whose
\* finalize() has made its UPDATE.
Finalized ==
    SumTo(execBy, NumRuns)
        - Cardinality({ p \in Runs : err[p] \in Entries })
        - Cardinality({ p \in Runs : pc[p] \in {"finalize", "f_finalize"} })

\* C13: the version is written exactly once per script that ran without
\* error: the run()'s next step after script n returns is the write of
\* version = n, before it lists the directory for n + 1; nothing else writes
\* the version, so a failed or skipped script leaves it alone.
C13_OneWritePerCompletedStep ==
    /\ [](writes = Finalized)
    /\ [][ /\ \A p \in Runs :
               /\ (execBy'[p] # execBy[p] /\ err'[p] = err[p]) =>
                      (pc'[p] = "finalize" /\ version' = version)
               /\ (pc[p] = "finalize" /\ pc'[p] # pc[p]) =>
                      /\ version' = dir[stack[p][Len(stack[p])].i][1]
                      /\ writes' = writes + 1
                      /\ executed' = executed
                      /\ pc'[p] = "readdir"
           /\ (writes' # writes \/ version' # version) =>
                  \E p \in Runs : pc[p] = "finalize" /\ pc'[p] = "readdir"
       ]_vars

\* Step 1 was written, step 2 failed and its run() has rejected.
C13_Witness ==
    /\ writes >= 1
    /\ \E p \in Runs : pc[p] = "rejected" /\ err[p] \in failing /\ err[p][1] = 2

\* The lowest ordinal the directory has no entry for.
Gap == CHOOSE n \in 1..(TopOrd + 1) :
           /\ n \notin Ordinals
           /\ \A m \in 1..(n - 1) : m \in Ordinals

\* C14: a missing ordinal ends the run as a success: on a directory with
\* entries for v+1..v+k, none for v+k+1 and some for a higher ordinal, a
\* run() that read version v and resolved has invoked exactly the ordinals
\* v+1..v+k, the version is v+k, the lock is released, no entry above the
\* missing ordinal is ever invoked, and a run() only fails with the error of
\* a script.
C14_MissingOrdinalEndsRun ==
    /\ \A e \in Range(dir) : e[1] > Gap => executed[e] = 0
    /\ \A p \in Runs :
           /\ Failed(p) => err[p] \in failing
           /\ pc[p] = "done" =>
                  /\ ranOrds[p] = (curVer[p] + 1)..(Gap - 1)
                  /\ version = Gap - 1
                  /\ advLock # p

\* A run() that read version 0 has resolved on a directory holding ordinal 1
\* and a higher one but not ordinal 2.
C14_Witness ==
    /\ Gap = 2 /\ \E e \in Range(dir) : e[1] > Gap
    /\ \E p \in Runs : pc[p] = "done" /\ curVer[p] = 0 /\ ranOrds[p] = {1}

\* C15: contention is never an error: a run() whose lock query is refused
\* because another session holds the lock goes to the backoff wait without
\* failing and without touching the version record or any script, from the
\* wait it asks again, any number of times, and once the lock is free the
\* query grants it; a run() in this loop has invoked nothing and has no
\* error.
C15_ContentionRetries ==
    /\ [](\A p \in Runs : Retrying(p) => (execBy[p] = 0 /\ err[p] = NoEntry))
    /\ [][ \A p \in Runs :
               /\ (pc[p] = "lock" /\ advLock \notin {0, p} /\ pc'[p] # pc[p]) =>
                      /\ pc'[p] = "backoff"
                      /\ dbVars' = dbVars /\ executed' = executed
                      /\ advLock' = advLock /\ err' = err /\ session' = session
               /\ (pc[p] = "backoff" /\ pc'[p] # pc[p]) =>
                      /\ pc'[p] = "lock"
                      /\ dbVars' = dbVars /\ executed' = executed
                      /\ advLock' = advLock /\ err' = err /\ session' = session
               /\ (pc[p] = "lock" /\ advLock = 0 /\ pc'[p] # pc[p]) =>
                      (pc'[p] = "create" /\ advLock' = p)
       ]_vars

\* The flag implementation's getLock() behaves alike on running = 1.
C15_FlagContentionRetries ==
    [][ \A p \in Runs :
            /\ (pc[p] = "f_selectRunning" /\ running # 0 /\ pc'[p] # pc[p]) =>
                   pc'[p] = "f_commitBusy" /\ dbVars' = dbVars /\ err' = err
            /\ (pc[p] = "f_commitBusy" /\ pc'[p] # pc[p]) =>
                   pc'[p] = "f_backoff" /\ dbVars' = dbVars /\ err' = err
            /\ (pc[p] = "f_backoff" /\ pc'[p] # pc[p]) =>
                   pc'[p] = "f_lockTable" /\ dbVars' = dbVars /\ err' = err
      ]_vars

\* A run() waits in the backoff while the lock holder has invoked a script.
C15_Witness ==
    \E p, q \in Runs :
        pc[p] = "backoff" /\ advLock = q /\ q # p /\ execBy[q] >= 1

\* The awaits of run() that write the version record or run a script.
Writing(p) == pc[p] \in {"create", "insert", "exec", "finalize", "clearRunning"}

\* C16: advisory-lock run(): table creation, first-row insertion, script
\* execution, version advance and running = 0 are made by the run() that
\* holds the lock at that moment; a step that changes the version record or
\* a script count is a step of the holder.
C16_WritesOnlyByHolder ==
    [][ /\ \A p \in Runs : (Writing(p) /\ pc'[p] # pc[p]) => advLock = p
        /\ (dbVars' # dbVars \/ executed' # executed) =>
               \E p \in Runs : advLock = p /\ advLock' = p /\ pc'[p] # pc[p]
      ]_vars

\* The holder has advanced the version and is about to advance it again
\* while another run() is in the retry loop.
C16_Witness ==
    \E p, q \in Runs :
        /\ advLock = p /\ pc[p] = "finalize" /\ version >= 1
        /\ Retrying(q)

\* The errors of obtaining the session and of the lock query.
AcquisitionFaults == {Fault("connect"), Fault("lock")}

\* C17: when getConnection() or the lock query fails, run() rejects with
\* that error at once and for good (no retry); the failing step changes
\* neither the version record nor the lock nor any script count, and the
\* run() has invoked no step, read no version and never held the lock.
C17_AcquisitionFailureRejects ==
    /\ [](\A p \in Runs :
              err[p] \in AcquisitionFaults =>
                  /\ pc[p] = "rejected"
                  /\ execBy[p] = 0 /\ curVer[p] = 0 /\ advLock # p)
    /\ [][ \A p \in Runs :
               /\ (err'[p] \in AcquisitionFaults /\ err[p] = NoEntry) =>
                      /\ pc[p] \in {"idle", "lock"}
                      /\ dbVars' = dbVars /\ executed' = executed
                      /\ advLock' = advLock
               /\ err[p] \in AcquisitionFaults => (pc'[p] = pc[p] /\ err'[p] = err[p])
       ]_vars

\* One run() was rejected by getConnection(), one by the lock query, and a
\* third has migrated the database.
C17_Witness ==
    \E p, q \in Runs :
        /\ pc[p] = "rejected" /\ err[p] = Fault("connect")
        /\ pc[q] = "rejected" /\ err[q] = Fault("lock")
        /\ version >= 1

\* C18: CREATE TABLE on an existing table (error 42P07) is no error of
\* run(): it goes on to the INSERT with the version record untouched; any
\* other creation failure makes run() reject with it after releasing the
\* lock and closing the session, without reading the version or invoking a
\* step.
C18_TableCreation ==
    /\ [](\A p \in Runs :
              err[p] = Fault("create") =>
                  /\ pc[p] \in {"unlockErr", "endErr", "rejected"}
                  /\ execBy[p] = 0 /\ curVer[p] = 0
                  /\ pc[p] = "rejected" => (advLock # p /\ session[p] = "closed"))
    /\ [][ \A p \in Runs :
               (pc[p] = "create" /\ pc'[p] # pc[p] /\ err'[p] # Fault("create")) =>
                   /\ pc'[p] = "insert" /\ err'[p] = NoEntry
                   /\ tableExists'
                   /\ tableExists => dbVars' = dbVars
       ]_vars

\* The flag implementation swallows 42P07 alike.
C18_FlagTableCreation ==
    [][ \A p \in Runs :
            (pc[p] = "idle" /\ pc'[p] # pc[p]) =>
                /\ pc'[p] = "f_insert" /\ err'[p] = NoEntry
                /\ tableExists'
                /\ tableExists => dbVars' = dbVars
      ]_vars

\* One run() was rejected by a creation failure and has closed its
\* session; another, called after a run() had resolved (so the table
\* existed), has resolved.
C18_Witness ==
    \E p, q \in Runs :
        /\ pc[p] = "rejected" /\ err[p] = Fault("create") /\ session[p] = "closed"
        /\ pc[q] = "done" /\ afterSuccess[q]

\* C19: advisory-lock run(): when fs.readdir fails, for the first ordinal or
\* a later one, the version record and the script counts stay as they are
\* (the version being the ordinal before the one that was to be listed), and
\* run() rejects with the listing error after releasing the lock and
\* closing the session; a run() on its way to resolving, as after a listing
\* without the wanted ordinal, carries no error.
C19_ListingFailure ==
    /\ [](\A p \in Runs :
              /\ err[p] = Fault("readdir") =>
                     /\ pc[p] \in {"unlockErr", "endErr", "rejected"}
                     /\ pc[p] = "rejected" => (advLock # p /\ session[p] = "closed")
              /\ pc[p] \in {"clearRunning", "unlock", "end", "done"} =>
                     err[p] = NoEntry)
    /\ [][ \A p \in Runs :
               (err'[p] = Fault("readdir") /\ err[p] = NoEntry) =>
                   /\ pc[p] = "readdir" /\ advLock = p
                   /\ dbVars' = dbVars /\ executed' = executed
                   /\ version = stack[p][Len(stack[p])].sv - 1
       ]_vars

\* One run() was rejected by a listing failure after it had completed a
\* step, another by a failure of its first listing.
C19_Witness ==
    \E p, q \in Runs :
        /\ pc[p] = "rejected" /\ err[p] = Fault("readdir") /\ execBy[p] >= 1
        /\ pc[q] = "rejected" /\ err[q] = Fault("readdir") /\ execBy[q] = 0
        /\ session[p] = "closed" /\ session[q] = "closed"

\* run() p (flag implementation) has read running = 0 in getLock() and has
\* not yet written running = 0.
FlagInside(p) == pc[p] = "f_setRunning" \/ FlagHolding(p)

\* C20: flag implementation: getLock() reads running and writes running = 1
\* under the table lock of one transaction: a run() that has read 0 still
\* holds the table lock with running = 0 when it writes 1, running goes
\* from 0 to 1 only by that write, and at most one run() is between reading
\* running = 0 and writing running = 0.
C20_FlagExclusive ==
    /\ [](/\ Cardinality({ p \in Runs : FlagInside(p) }) <= 1
          /\ \A p \in Runs :
                 /\ pc[p] = "f_setRunning" => (tableLock = p /\ running = 0)
                 /\ pc[p] = "f_commit" => (tableLock = p /\ running = 1))
    /\ [][ (running = 0 /\ running' = 1) =>
               \E p \in Runs : pc[p] = "f_setRunning" /\ pc'[p] = "f_commit"
       ]_vars

\* One run() is inside while two others have found running = 1 and wait.
C20_Witness ==
    \E p, q, r \in Runs :
        /\ pc[p] = "f_exec" /\ running = 1
        /\ pc[q] = "f_backoff" /\ pc[r] = "f_backoff" /\ q # r

\* C21: older flag implementation (getLock of src/src/index.ts 319-345): a
\* getLock() that read running != 0 has ended its transaction when it backs
\* off, so that no table lock is left with a session nobody drives, and
\* every started run() eventually resolves or rejects.
C21_WaiterGivesUpTableLock ==
    /\ [](tableLock # Abandoned)
    /\ \A p \in Runs : (pc[p] # "idle") ~> (pc[p] \in {"done", "rejected"})

\* C22: advisory-lock run(): the lock key does not depend on the table
\* name: run() invocations with different table names on one database never
\* hold the lock together, and one that asks while the other holds it goes
\* to the backoff and asks again, leaving both tables' records alone.
C22_ExclusiveAcrossTables ==
    /\ [](\A p, q \in Runs :
              (p # q /\ tableOf[p] # tableOf[q]) => ~(Holding(p) /\ Holding(q)))
    /\ [][ \A p, q \in Runs :
               (/\ tableOf[p] # tableOf[q]
                /\ pc[p] = "lock" /\ Holding(q) /\ pc'[p] # pc[p]) =>
                   /\ pc'[p] = "backoff"
                   /\ advLock' = q
                   /\ dbVars' = dbVars /\ otherTable' = otherTable
       ]_vars

\* A run() on one table waits in the backoff while a run() on the other
\* table holds the lock and runs a script; the waiter's table has been
\* migrated before.
C22_Witness ==
    \E p, q \in Runs :
        /\ tableOf[p] # tableOf[q]
        /\ pc[p] = "backoff" /\ pc[q] = "exec" /\ advLock = q
        /\ VersionIn(tableOf[p]) >= 1

\* C23: advisory-lock run(): from a fresh target running is 0 in every
\* reachable state: no statement of run() or runScripts() writes 1 into it,
\* neither while a run() holds the lock and runs scripts nor when a run()
\* has failed.
C23_RunningNeverSet == running = 0

\* The row exists, one run() has rejected with a script's error and another
\* holds the lock and is running a script.
C23_Witness ==
    /\ hasRow
    /\ \E p, q \in Runs :
           /\ pc[p] = "rejected" /\ err[p] \in failing
           /\ pc[q] = "exec" /\ advLock = q

====
